---------------------------- MODULE Spec2Model ----------------------------
(***************************************************************************)
(* The CVODE nonlinear solver interface (src/cvode/cvode_nls.c): the       *)
(* registration of a SUNNonlinearSolver, and the callbacks CVODE hands to  *)
(* it (linear setup, linear solve, convergence test, residual and          *)
(* fixed-point function).                                                  *)
(*                                                                         *)
(* realtype values are exact rationals <<n, d>> in lowest terms with       *)
(* d > 0; rounding of floating point is outside the model.                 *)
(***************************************************************************)
EXTENDS Integers, Sequences, FiniteSets, TLC

(***************************************************************************)
(* realtype arithmetic                                                     *)
(***************************************************************************)
Abs(n) == IF n < 0 THEN -n ELSE n

RECURSIVE Gcd(_, _)
Gcd(a, b) == IF b = 0 THEN a ELSE Gcd(b, a % b)

\* the rational n/d (d > 0) in lowest terms
Rat(n, d) == LET g == Gcd(Abs(n), d) IN <<n \div g, d \div g>>

RNeg(a)    == <<-a[1], a[2]>>
RAdd(a, b) == Rat(a[1] * b[2] + b[1] * a[2], a[2] * b[2])
RMul(a, b) == Rat(a[1] * b[1], a[2] * b[2])
\* a / b; the divisor is never zero where the code divides (DelpNonZero)
RDiv(a, b) == IF b[1] > 0 THEN Rat(a[1] * b[2], a[2] * b[1])
                          ELSE Rat(-(a[1] * b[2]), a[2] * (-b[1]))
RLe(a, b)  == a[1] * b[2] <= b[1] * a[2]
RLt(a, b)  == a[1] * b[2] < b[1] * a[2]

SUNMAX(a, b) == IF RLt(b, a) THEN a ELSE b
SUNMIN(a, b) == IF RLt(a, b) THEN a ELSE b

RECURSIVE RPow(_, _)
RPow(a, k) == IF k = 0 THEN <<1, 1>> ELSE RMul(a, RPow(a, k - 1))

ZERO   == <<0, 1>>
ONE    == <<1, 1>>
CRDOWN == <<3, 10>>
RDIV   == <<2, 1>>
NLS_MAXCOR == 3

(***************************************************************************)
(* return codes                                                            *)
(***************************************************************************)
CV_SUCCESS         == "CV_SUCCESS"
CV_MEM_NULL        == "CV_MEM_NULL"
CV_ILL_INPUT       == "CV_ILL_INPUT"
CV_LSETUP_FAIL     == "CV_LSETUP_FAIL"
CV_LSOLVE_FAIL     == "CV_LSOLVE_FAIL"
CV_RHSFUNC_FAIL    == "CV_RHSFUNC_FAIL"
CV_NLS_INIT_FAIL   == "CV_NLS_INIT_FAIL"
RHSFUNC_RECVR      == "RHSFUNC_RECVR"
SUN_NLS_CONTINUE   == "SUN_NLS_CONTINUE"
SUN_NLS_CONV_RECVR == "SUN_NLS_CONV_RECVR"

CV_NO_FAILURES == "CV_NO_FAILURES"
CV_FAIL_BAD_J  == "CV_FAIL_BAD_J"
CV_FAIL_OTHER  == "CV_FAIL_OTHER"

NULL == 0

(***************************************************************************)
(* bounds of the model                                                     *)
(***************************************************************************)
MaxDecay  == 2      \* crate is updated only while crate >= CRDOWN^MaxDecay
MaxCount  == 2      \* cap of the counters cv_nsetups and cv_nfe
VecLen    == 1      \* length of the N_Vectors
NumSolvers == 2     \* SUNNonlinearSolver objects the user creates

\* the integrator instances (CVodeMem objects) the process may create
Inst == {1, 2}

\* values N_VWrmsNorm returns for the correction delta, and tolerances
DelVals  == { <<1, 2>>, <<1, 1>>, <<3, 1>> }
TolVals  == { <<1, 4>>, <<1, 1>>, <<4, 1>> }
\* the norms and tolerances of the runs with two integrators
TwoDelVals == { <<1, 1>>, <<3, 1>> }
TwoTolVals == { <<1, 4>>, <<4, 1>> }
\* value N_VWrmsNorm returns for the accumulated correction ycor
YcorNormVals == { <<7, 2>> }

VARIABLES
  cv_mem,   \* cv_mem[i]: the fields of integrator instance i
  delp,     \* the function-local static of cvNlsConvTest (one per process)
  nls,      \* nls[i]: the solve in flight on instance i, as the driver sees it
  solver,   \* solver[s]: the SUNNonlinearSolver objects
  res,      \* the caller's output vector of the system function
  last      \* the last call: its arguments, what it read and what it returned

vars == <<cv_mem, delp, nls, solver, res, last>>

(***************************************************************************)
(* initial state                                                           *)
(***************************************************************************)
VecOf(x) == [k \in 1 .. VecLen |-> x]

\* a CVodeMem as CVodeCreate/CVodeInit leave it, with the step coefficients
\* gamma, rl1, h, the history zn and the step number nst given
Mem(gamma, rl1, h, zn0, zn1, nst) ==
  [ cv_crate   |-> ONE,
    cv_acnrm   |-> ZERO,
    cv_nsetups |-> 0,
    cv_nfe     |-> 0,
    cv_jcur    |-> FALSE,
    cv_gamrat  |-> ONE,
    cv_gammap  |-> ONE,
    cv_gamma   |-> gamma,
    cv_nstlp   |-> 0,
    cv_nst     |-> nst,
    convfail   |-> CV_NO_FAILURES,
    cv_rl1     |-> rl1,
    cv_h       |-> h,
    cv_zn      |-> <<zn0, zn1>>,
    cv_y       |-> VecOf(ZERO),
    cv_ftemp   |-> VecOf(ZERO),
    NLS        |-> NULL ]

\* no solve in flight
Idle == [active |-> FALSE, curiter |-> 0, prevdel |-> ZERO]

NoCall == [op |-> "none", i |-> NULL, ret |-> CV_SUCCESS]

\* the process with the integrators I created, none of them in a solve
InitWith(I) ==
  /\ cv_mem = [i \in I |-> Mem(<<1, 2>>, ONE, ONE, VecOf(ONE), VecOf(ONE), 1)]
  /\ delp = ZERO
  /\ nls = [i \in I |-> Idle]
  /\ solver = << >>
  /\ res = VecOf(ZERO)
  /\ last = NoCall

\* one integrator
Init == InitWith({1})

\* two integrators in the same process
InitTwo == InitWith(Inst)

\* the integrators that exist
Live == DOMAIN cv_mem

(***************************************************************************)
(* the driving nonlinear solver (SUNNonlinSolSolve): one solve in flight   *)
(* per integrator, the iteration index starting at 0 and advancing by one  *)
(* after each SUN_NLS_CONTINUE, at most NLS_MAXCOR iterations              *)
(***************************************************************************)
StartSolve(i) ==
  /\ ~nls[i].active
  /\ nls' = [nls EXCEPT ![i] = [active |-> TRUE, curiter |-> 0, prevdel |-> ZERO]]
  /\ last' = [op |-> "StartSolve", i |-> i, ret |-> CV_SUCCESS]
  /\ UNCHANGED <<cv_mem, delp, solver, res>>

\* the driver leaves the solve (a failed system function or linear solve)
EndSolve(i) ==
  /\ nls[i].active
  /\ nls' = [nls EXCEPT ![i] = Idle]
  /\ last' = [op |-> "EndSolve", i |-> i, ret |-> CV_SUCCESS]
  /\ UNCHANGED <<cv_mem, delp, solver, res>>

\* the driver's step after the convergence test returned ret on iteration m
DriverNext(d, ret, del) ==
  IF ret = SUN_NLS_CONTINUE /\ d.curiter + 1 < NLS_MAXCOR
  THEN [active |-> TRUE, curiter |-> d.curiter + 1, prevdel |-> del]
  ELSE Idle

(***************************************************************************)
(* cvNlsConvTest                                                           *)
(***************************************************************************)
\* ConvCrate taking the smaller of the decayed rate and the observed ratio
ConvCrate_Min(m, crate, del, dp) ==
  IF m > 0 THEN SUNMIN(RMul(CRDOWN, crate), RDiv(del, dp)) ELSE crate

\* crate after the update of an iteration m
ConvCrate(m, crate, del, dp) ==
  IF m > 0 THEN SUNMAX(RMul(CRDOWN, crate), RDiv(del, dp)) ELSE crate

\* ConvDcon without the convergence rate
ConvDcon_NoCrate(del, crate, tol) == RDiv(del, tol)

ConvDcon(del, crate, tol) == RDiv(RMul(del, SUNMIN(ONE, crate)), tol)

\* ConvResult without the divergence test
ConvResult_NoDivergence(m, del, dp, dcon) ==
  IF RLe(dcon, ONE) THEN CV_SUCCESS ELSE SUN_NLS_CONTINUE

\* ConvResult declaring divergence as soon as the norm grows
ConvResult_NoRDIV(m, del, dp, dcon) ==
  IF RLe(dcon, ONE) THEN CV_SUCCESS
  ELSE IF m >= 1 /\ RLt(dp, del) THEN SUN_NLS_CONV_RECVR
  ELSE SUN_NLS_CONTINUE

ConvResult(m, del, dp, dcon) ==
  IF RLe(dcon, ONE) THEN CV_SUCCESS
  ELSE IF m >= 1 /\ RLt(RMul(RDIV, dp), del) THEN SUN_NLS_CONV_RECVR
  ELSE SUN_NLS_CONTINUE

\* the static delp after the call
ConvDelp(ret, del, dp) == IF ret = SUN_NLS_CONTINUE THEN del ELSE dp

ConvAcnrm(ret, m, del, ycnrm, acnrm) ==
  IF ret = CV_SUCCESS THEN (IF m = 0 THEN del ELSE ycnrm) ELSE acnrm

cvNlsConvTest(i, del, tol, ycnrm) ==
  LET m     == nls[i].curiter
      crate == ConvCrate(m, cv_mem[i].cv_crate, del, delp)
      dcon  == ConvDcon(del, crate, tol)
      ret   == ConvResult(m, del, delp, dcon)
  IN /\ nls[i].active
     /\ m > 0 => RLe(RPow(CRDOWN, MaxDecay), cv_mem[i].cv_crate)
     /\ cv_mem' = [cv_mem EXCEPT ![i].cv_crate = crate,
                                 ![i].cv_acnrm =
                                    ConvAcnrm(ret, m, del, ycnrm, @)]
     /\ delp' = ConvDelp(ret, del, delp)
     /\ nls' = [nls EXCEPT ![i] = DriverNext(@, ret, del)]
     /\ last' = [op |-> "cvNlsConvTest", i |-> i, ret |-> ret, m |-> m,
                 del |-> del, tol |-> tol, ycnrm |-> ycnrm,
                 delp |-> delp, prevdel |-> nls[i].prevdel,
                 crate |-> cv_mem[i].cv_crate]
     /\ UNCHANGED <<solver, res>>

\* a call with a NULL cvode_mem
cvNlsConvTestNull ==
  /\ last' = [op |-> "cvNlsConvTest", i |-> NULL, ret |-> CV_MEM_NULL]
  /\ UNCHANGED <<cv_mem, delp, nls, solver, res>>

(***************************************************************************)
(* cvNlsLSetup                                                             *)
(***************************************************************************)
LSetupResult(retval) ==
  IF retval < 0 THEN CV_LSETUP_FAIL
  ELSE IF retval > 0 THEN SUN_NLS_CONV_RECVR
  ELSE CV_SUCCESS

\* convfail as cv_lsetup receives it
LSetupConvfail(jbad, convfail) == IF jbad THEN CV_FAIL_BAD_J ELSE convfail

\* LSetupMem without the snapshot of gamma and nst
LSetupMem_NoSnapshot(mem, jbad, jcurOut) ==
  [mem EXCEPT !.convfail   = LSetupConvfail(jbad, @),
              !.cv_jcur    = jcurOut,
              !.cv_nsetups = @ + 1,
              !.cv_gamrat  = ONE,
              !.cv_crate   = ONE]

\* the integrator after cv_lsetup returned, leaving cv_jcur = jcurOut
LSetupMem(mem, jbad, jcurOut) ==
  [mem EXCEPT !.convfail   = LSetupConvfail(jbad, @),
              !.cv_jcur    = jcurOut,
              !.cv_nsetups = @ + 1,
              !.cv_gamrat  = ONE,
              !.cv_crate   = ONE,
              !.cv_gammap  = mem.cv_gamma,
              !.cv_nstlp   = mem.cv_nst]

\* retval and jcurOut are what the integrator's cv_lsetup routine returns
\* and leaves in cv_jcur
cvNlsLSetup(i, jbad, retval, jcurOut) ==
  /\ cv_mem[i].cv_nsetups < MaxCount
  /\ cv_mem' = [cv_mem EXCEPT ![i] = LSetupMem(@, jbad, jcurOut)]
  /\ last' = [op |-> "cvNlsLSetup", i |-> i, ret |-> LSetupResult(retval),
              jbad |-> jbad, retval |-> retval,
              seen |-> LSetupConvfail(jbad, cv_mem[i].convfail),
              jcur |-> cv_mem'[i].cv_jcur, jcurOut |-> jcurOut,
              pre |-> cv_mem[i]]
  /\ UNCHANGED <<delp, nls, solver, res>>

cvNlsLSetupNull ==
  /\ last' = [op |-> "cvNlsLSetup", i |-> NULL, ret |-> CV_MEM_NULL]
  /\ UNCHANGED <<cv_mem, delp, nls, solver, res>>

Next ==
  \/ \E i \in Live : StartSolve(i)
  \/ \E i \in Live : EndSolve(i)
  \/ \E i \in Live, del \in DelVals, tol \in TolVals, ycnrm \in YcorNormVals :
        cvNlsConvTest(i, del, tol, ycnrm)
  \/ cvNlsConvTestNull
  \/ \E i \in Live, jbad \in BOOLEAN, retval \in {-1, 0, 1}, jcurOut \in BOOLEAN :
        cvNlsLSetup(i, jbad, retval, jcurOut)
  \/ cvNlsLSetupNull

\* one integrator: its solves, convergence tests and linear setups
Spec == Init /\ [][Next]_vars

\* two integrators of one process, their solves interleaving call by call
NextTwo ==
  \/ \E i \in Live : StartSolve(i)
  \/ \E i \in Live : EndSolve(i)
  \/ \E i \in Live, del \in TwoDelVals, tol \in TwoTolVals,
        ycnrm \in YcorNormVals :
        cvNlsConvTest(i, del, tol, ycnrm)

SpecTwo == InitTwo /\ [][NextTwo]_vars

(***************************************************************************)
(* N_Vector operations                                                     *)
(***************************************************************************)
\* z = a x + b y
N_VLinearSum(a, x, b, y) ==
  [k \in 1 .. VecLen |-> RAdd(RMul(a, x[k]), RMul(b, y[k]))]

\* z = c x
N_VScale(c, x) == [k \in 1 .. VecLen |-> RMul(c, x[k])]

Vectors(S) == [1 .. VecLen -> S]

(***************************************************************************)
(* cvNlsResidual and cvNlsFPFunction.  retval is what the user's right     *)
(* hand side cv_f returns and fout what it leaves in its output vector.    *)
(***************************************************************************)
\* RhsResult with the signs exchanged
RhsResult_Swapped(retval) ==
  IF retval > 0 THEN CV_RHSFUNC_FAIL
  ELSE IF retval < 0 THEN RHSFUNC_RECVR
  ELSE CV_SUCCESS

RhsResult(retval) ==
  IF retval < 0 THEN CV_RHSFUNC_FAIL
  ELSE IF retval > 0 THEN RHSFUNC_RECVR
  ELSE CV_SUCCESS

\* cv_y, cv_ftemp and cv_nfe after the state update and the call of cv_f
\* with output vector cv_ftemp
ResidualMem(mem, ycor, fout) ==
  [mem EXCEPT !.cv_y     = N_VLinearSum(ONE, mem.cv_zn[1], ONE, ycor),
              !.cv_ftemp = fout,
              !.cv_nfe   = @ + 1]

\* ResidualRes adding gamma * ftemp
ResidualRes_PlusGamma(mem, ycor) ==
  N_VLinearSum(mem.cv_gamma, mem.cv_ftemp, ONE,
               N_VLinearSum(mem.cv_rl1, mem.cv_zn[2], ONE, ycor))

\* the residual rl1 * zn[1] + ycor - gamma * ftemp
ResidualRes(mem, ycor) ==
  N_VLinearSum(RNeg(mem.cv_gamma), mem.cv_ftemp, ONE,
               N_VLinearSum(mem.cv_rl1, mem.cv_zn[2], ONE, ycor))

\* the caller's vector res after the call
ResidualOut(mem, ycor, retval, r) ==
  IF retval = 0 THEN ResidualRes(mem, ycor) ELSE r

cvNlsResidual(i, ycor, retval, fout) ==
  LET mem == ResidualMem(cv_mem[i], ycor, fout)
  IN /\ cv_mem[i].cv_nfe < MaxCount
     /\ cv_mem' = [cv_mem EXCEPT ![i] = mem]
     /\ res' = ResidualOut(mem, ycor, retval, res)
     /\ last' = [op |-> "cvNlsResidual", i |-> i, ret |-> RhsResult(retval),
                 ycor |-> ycor, retval |-> retval, fout |-> fout,
                 res |-> res, pre |-> cv_mem[i]]
     /\ UNCHANGED <<delp, nls, solver>>

cvNlsResidualNull ==
  /\ last' = [op |-> "cvNlsResidual", i |-> NULL, ret |-> CV_MEM_NULL]
  /\ UNCHANGED <<cv_mem, delp, nls, solver, res>>

\* cv_y and cv_nfe after the state update and the call of cv_f, whose output
\* vector is the caller's res
FPMem(mem, ycor) ==
  [mem EXCEPT !.cv_y   = N_VLinearSum(ONE, mem.cv_zn[1], ONE, ycor),
              !.cv_nfe = @ + 1]

\* rl1 * (h * f - zn[1])
FPRes(mem, f) ==
  N_VScale(mem.cv_rl1, N_VLinearSum(mem.cv_h, f, RNeg(ONE), mem.cv_zn[2]))

FPOut(mem, retval, fout) == IF retval = 0 THEN FPRes(mem, fout) ELSE fout

cvNlsFPFunction(i, ycor, retval, fout) ==
  /\ cv_mem[i].cv_nfe < MaxCount
  /\ cv_mem' = [cv_mem EXCEPT ![i] = FPMem(@, ycor)]
  /\ res' = FPOut(cv_mem[i], retval, fout)
  /\ last' = [op |-> "cvNlsFPFunction", i |-> i, ret |-> RhsResult(retval),
              ycor |-> ycor, retval |-> retval, fout |-> fout,
              res |-> res, pre |-> cv_mem[i]]
  /\ UNCHANGED <<delp, nls, solver>>

cvNlsFPFunctionNull ==
  /\ last' = [op |-> "cvNlsFPFunction", i |-> NULL, ret |-> CV_MEM_NULL]
  /\ UNCHANGED <<cv_mem, delp, nls, solver, res>>

\* the step coefficients and history of the correction solves
GammaVals == { <<1, 10>>, <<1, 2>> }
\* <<gamma, rl1, h>>
CoefVals  == { << <<1, 10>>, ONE, <<1, 5>> >>, << <<1, 2>>, <<2, 3>>, <<1, 5>> >> }
\* <<zn[0], zn[1]>>, each with equal components
HistVals  == { <<ONE, <<1, 2>> >>, << <<-2, 1>>, <<3, 1>> >> }
YcorVals  == { ZERO, ONE }
FVals     == { <<2, 1>>, <<-1, 1>> }

\* one integrator at a correction solve of some step
InitRes ==
  /\ \E c \in CoefVals, z \in HistVals :
        cv_mem = [i \in {1} |->
                    Mem(c[1], c[2], c[3], VecOf(z[1]), VecOf(z[2]), 1)]
  /\ delp = ZERO
  /\ nls = [i \in {1} |-> Idle]
  /\ solver = << >>
  /\ res = VecOf(ZERO)
  /\ last = NoCall

NextRes ==
  \/ \E i \in Live, ycor \in Vectors(YcorVals), retval \in {-1, 0, 1},
        fout \in Vectors(FVals) : cvNlsResidual(i, ycor, retval, fout)
  \/ cvNlsResidualNull
  \/ \E i \in Live, ycor \in Vectors(YcorVals), retval \in {-1, 0, 1},
        fout \in Vectors(FVals) : cvNlsFPFunction(i, ycor, retval, fout)
  \/ cvNlsFPFunctionNull

\* the system functions of one integrator
SpecRes == InitRes /\ [][NextRes]_vars

(***************************************************************************)
(* cvNlsLSolve.  retval is what the integrator's cv_lsolve returns.        *)
(***************************************************************************)
LSolveResult(retval) ==
  IF retval < 0 THEN CV_LSOLVE_FAIL
  ELSE IF retval > 0 THEN SUN_NLS_CONV_RECVR
  ELSE CV_SUCCESS

cvNlsLSolve(i, retval) ==
  /\ last' = [op |-> "cvNlsLSolve", i |-> i, ret |-> LSolveResult(retval),
              retval |-> retval]
  /\ UNCHANGED <<cv_mem, delp, nls, solver, res>>

cvNlsLSolveNull ==
  /\ last' = [op |-> "cvNlsLSolve", i |-> NULL, ret |-> CV_MEM_NULL]
  /\ UNCHANGED <<cv_mem, delp, nls, solver, res>>

\* one integrator in the middle of an integration: some steps taken, gamma
\* changed since the last setup, a convergence rate estimated
InitLS ==
  /\ \E gamma \in GammaVals, gamrat \in {ONE, <<5, 4>>},
        crate \in {ONE, <<1, 2>>, <<3, 2>>}, nst \in {1, 3},
        convfail \in {CV_NO_FAILURES, CV_FAIL_OTHER} :
        cv_mem = [i \in {1} |->
                    [Mem(gamma, ONE, ONE, VecOf(ONE), VecOf(ONE), nst)
                       EXCEPT !.cv_gamrat = gamrat, !.cv_crate = crate,
                              !.convfail = convfail]]
  /\ delp = ZERO
  /\ nls = [i \in {1} |-> Idle]
  /\ solver = << >>
  /\ res = VecOf(ZERO)
  /\ last = NoCall

NextLS ==
  \/ \E i \in Live, jbad \in BOOLEAN, retval \in {-1, 0, 1}, jcurOut \in BOOLEAN :
        cvNlsLSetup(i, jbad, retval, jcurOut)
  \/ cvNlsLSetupNull
  \/ \E i \in Live, retval \in {-1, 0, 1} : cvNlsLSolve(i, retval)
  \/ cvNlsLSolveNull

\* the linear setup and solve adapters of one integrator
SpecLS == InitLS /\ [][NextLS]_vars

(***************************************************************************)
(* SUNNonlinearSolver objects and CVodeSetNonlinearSolver                  *)
(***************************************************************************)
SolverIds == 1 .. NumSolvers

\* the operations CVodeSetNonlinearSolver requires
RequiredOps == {"gettype", "initialize", "solve", "free", "setsysfn"}

SUNNONLINEARSOLVER_ROOTFIND   == "ROOTFIND"
SUNNONLINEARSOLVER_FIXEDPOINT == "FIXEDPOINT"
SolverTypes ==
  {SUNNONLINEARSOLVER_ROOTFIND, SUNNONLINEARSOLVER_FIXEDPOINT, "OTHER"}

\* a solver not yet created
Absent == [state |-> "absent"]

\* a solver as its constructor leaves it: the operations ops, the type type,
\* nothing set
NewSolver(ops, type) ==
  [state |-> "live", ops |-> ops, type |-> type,
   sysfn |-> "none", ctestfn |-> "none", maxiters |-> 0]

\* the user creates a solver object
SUNNonlinSolNew(s, kind) ==
  /\ solver[s].state = "absent"
  /\ solver' = [solver EXCEPT ![s] = NewSolver(kind[1], kind[2])]
  /\ last' = [op |-> "SUNNonlinSolNew", i |-> NULL, ret |-> CV_SUCCESS]
  /\ UNCHANGED <<cv_mem, delp, nls, res>>

\* SUNNonlinSolFree on the solvers
SUNNonlinSolFree(sol, s) == [sol EXCEPT ![s].state = "freed"]

\* a setter of the solver, returning retval: it stores on success
SolverSet(sol, s, field, value, retval) ==
  IF retval = 0 THEN [sol EXCEPT ![s] = [@ EXCEPT ![field] = value]] ELSE sol

\* the solvers once the integrator's existing solver old was freed
RegFreed(sol, old) == IF old # NULL THEN SUNNonlinSolFree(sol, old) ELSE sol

\* the system function for a solver type, "none" for neither type
RegSysFn(type) ==
  IF type = SUNNONLINEARSOLVER_ROOTFIND THEN "cvNlsResidual"
  ELSE IF type = SUNNONLINEARSOLVER_FIXEDPOINT THEN "cvNlsFPFunction"
  ELSE "none"

\* the check for required nonlinear solver functions
RegOpsMissing(ops) == \E o \in RequiredOps : o \notin ops

\* the result of a registration that passed the NULL and operation checks;
\* rsys, rctest, rmax are what the solver's setters return
\* RegResult accepting a solver of neither type
RegResult_AnyType(type, rsys, rctest, rmax) ==
  IF rsys # 0 THEN CV_ILL_INPUT
  ELSE IF rctest # 0 THEN CV_ILL_INPUT
  ELSE IF rmax # 0 THEN CV_ILL_INPUT
  ELSE CV_SUCCESS

RegResult(type, rsys, rctest, rmax) ==
  IF RegSysFn(type) = "none" THEN CV_ILL_INPUT
  ELSE IF rsys # 0 THEN CV_ILL_INPUT
  ELSE IF rctest # 0 THEN CV_ILL_INPUT
  ELSE IF rmax # 0 THEN CV_ILL_INPUT
  ELSE CV_SUCCESS

\* the solver objects after such a registration of s on an integrator whose
\* solver was old
RegSolvers(sol, old, s, rsys, rctest, rmax) ==
  LET s0 == RegFreed(sol, old)
      fn == RegSysFn(sol[s].type)
      s1 == IF fn = "none" THEN s0 ELSE SolverSet(s0, s, "sysfn", fn, rsys)
      s2 == IF fn = "none" \/ rsys # 0 THEN s1
            ELSE SolverSet(s1, s, "ctestfn", "cvNlsConvTest", rctest)
      s3 == IF fn = "none" \/ rsys # 0 \/ rctest # 0 THEN s2
            ELSE SolverSet(s2, s, "maxiters", NLS_MAXCOR, rmax)
  IN s3

\* i is the integrator or NULL, s the candidate or NULL.  The candidate is a
\* live object other than the installed one (registering the installed solver
\* again would free it and then use it).
CVodeSetNonlinearSolver(i, s, rsys, rctest, rmax) ==
  LET preNLS == IF i = NULL THEN NULL ELSE cv_mem[i].NLS
      rec(ret) == [op |-> "CVodeSetNonlinearSolver", i |-> i, s |-> s,
                   ret |-> ret, preNLS |-> preNLS, preSolver |-> solver,
                   rsys |-> rsys]
  IN /\ s # NULL => solver[s].state = "live"
     /\ (i # NULL /\ s # NULL) => s # cv_mem[i].NLS
     /\ IF i = NULL
        THEN /\ last' = rec(CV_MEM_NULL)
             /\ UNCHANGED <<cv_mem, solver>>
        ELSE IF s = NULL
        THEN /\ last' = rec(CV_ILL_INPUT)
             /\ UNCHANGED <<cv_mem, solver>>
        ELSE IF RegOpsMissing(solver[s].ops)
        THEN /\ last' = rec(CV_ILL_INPUT)
             /\ UNCHANGED <<cv_mem, solver>>
        ELSE /\ solver' = RegSolvers(solver, preNLS, s, rsys, rctest, rmax)
             /\ cv_mem' = [cv_mem EXCEPT ![i].NLS = s]
             /\ last' = rec(RegResult(solver[s].type, rsys, rctest, rmax))
     /\ UNCHANGED <<delp, nls, res>>

\* the candidate solvers, <<operations, type>>: all required operations and
\* any type, or one required operation missing (the type is then never read)
SolverKinds ==
  {<<RequiredOps, t>> : t \in SolverTypes}
    \cup {<<RequiredOps \ {o}, SUNNONLINEARSOLVER_ROOTFIND>> : o \in RequiredOps}

InitReg ==
  /\ cv_mem = [i \in {1} |-> Mem(<<1, 2>>, ONE, ONE, VecOf(ONE), VecOf(ONE), 1)]
  /\ delp = ZERO
  /\ nls = [i \in {1} |-> Idle]
  /\ solver = [s \in SolverIds |-> Absent]
  /\ res = VecOf(ZERO)
  /\ last = NoCall

NextReg ==
  \/ \E s \in SolverIds, kind \in SolverKinds : SUNNonlinSolNew(s, kind)
  \/ \E i \in Live \cup {NULL}, s \in SolverIds \cup {NULL},
        rsys \in {0, -1}, rctest \in {0, -1}, rmax \in {0, -1} :
        CVodeSetNonlinearSolver(i, s, rsys, rctest, rmax)

\* one integrator and the solvers registered with it
SpecReg == InitReg /\ [][NextReg]_vars

(***************************************************************************)
(* Properties of cvNlsConvTest                                             *)
(***************************************************************************)
\* the last call was a convergence test on an integrator
ConvCalled == last.op = "cvNlsConvTest" /\ last.i # NULL

\* del > RDIV * delp, with the delp the call read
Diverging == RLt(RMul(RDIV, last.delp), last.del)

\* dcon > 1, with dcon = del * min(1, crate) / tol and crate as the call left it
DconAboveOne ==
  RLt(last.tol, RMul(last.del, SUNMIN(ONE, cv_mem[last.i].cv_crate)))

\* C1 as stated: a call with m >= 1 and del > 2 * delp returns
\* SUN_NLS_CONV_RECVR whatever dcon is.
C1_DivergedRegardlessOfDcon ==
  (ConvCalled /\ last.m >= 1 /\ Diverging) => last.ret = SUN_NLS_CONV_RECVR

\* C1 amended: a call with m >= 1 and del > 2 * delp returns
\* SUN_NLS_CONV_RECVR when dcon > 1, and CV_SUCCESS when dcon <= 1 (the
\* convergence test is made before the divergence test).
C1_DivergedWhenNotConverged ==
  (ConvCalled /\ last.m >= 1 /\ Diverging) =>
     last.ret = (IF DconAboveOne THEN SUN_NLS_CONV_RECVR ELSE CV_SUCCESS)

C1_Witness ==
  ConvCalled /\ last.m >= 1 /\ Diverging /\ DconAboveOne
             /\ last.ret = SUN_NLS_CONV_RECVR

\* C2 as stated: a call with m = 0 decides with crate taken as 1: CV_SUCCESS
\* exactly when del / tol <= 1 and SUN_NLS_CONTINUE otherwise.
C2_FirstIterationCrateOne ==
  (ConvCalled /\ last.m = 0) =>
     last.ret = (IF RLe(last.del, last.tol) THEN CV_SUCCESS
                                            ELSE SUN_NLS_CONTINUE)

\* C2 amended: a call with m = 0 never reads delp and leaves crate as stored;
\* it returns CV_SUCCESS exactly when del * min(1, crate) / tol <= 1 with the
\* stored crate (recording acnrm = del), and SUN_NLS_CONTINUE otherwise.
C2_FirstIterationStoredCrate ==
  (ConvCalled /\ last.m = 0) =>
     /\ cv_mem[last.i].cv_crate = last.crate
     /\ last.ret = (IF RLe(RMul(last.del, SUNMIN(ONE, last.crate)), last.tol)
                    THEN CV_SUCCESS ELSE SUN_NLS_CONTINUE)
     /\ last.ret = CV_SUCCESS => cv_mem[last.i].cv_acnrm = last.del

\* a first iteration that converges only because the stored crate is below 1,
\* a norm of an earlier solve still in delp
C2_Witness ==
  /\ ConvCalled /\ last.m = 0
  /\ RLt(last.crate, ONE) /\ RLt(ZERO, last.delp)
  /\ RLt(last.tol, last.del) /\ last.ret = CV_SUCCESS

\* C3 as stated: crate is in (0, 1] in every reachable state.
C3_CrateInUnitInterval ==
  \A i \in Live : RLt(ZERO, cv_mem[i].cv_crate) /\ RLe(cv_mem[i].cv_crate, ONE)

\* C3 amended: crate is positive in every reachable state and min(1, crate),
\* the factor the test uses, is in (0, 1]; crate itself is 1 after
\* cvNlsLSetup, unchanged by a call with m = 0, and
\* max(0.3 * crate, del / delp) after a call with m > 0, which exceeds 1
\* whenever del > delp.
C3_CratePositive ==
  /\ \A i \in Live :
        /\ RLt(ZERO, cv_mem[i].cv_crate)
        /\ RLt(ZERO, SUNMIN(ONE, cv_mem[i].cv_crate))
        /\ RLe(SUNMIN(ONE, cv_mem[i].cv_crate), ONE)
  /\ (last.op = "cvNlsLSetup" /\ last.i # NULL) =>
        cv_mem[last.i].cv_crate = ONE
  /\ (ConvCalled /\ last.m = 0) => cv_mem[last.i].cv_crate = last.crate
  /\ (ConvCalled /\ last.m > 0) =>
        /\ cv_mem[last.i].cv_crate =
              SUNMAX(RMul(CRDOWN, last.crate), RDiv(last.del, last.delp))
        /\ RLt(last.delp, last.del) => RLt(ONE, cv_mem[last.i].cv_crate)

C3_Witness ==
  ConvCalled /\ last.m > 0 /\ RLt(ONE, cv_mem[last.i].cv_crate)

\* C4: a call with m > 0 reads as delp the norm del of iteration m - 1 of the
\* same solve, also when the solves of two integrators interleave.
C4_DelpIsPreviousNorm ==
  (ConvCalled /\ last.m > 0) => last.delp = last.prevdel

\* C5: a call with m >= 1, del <= 2 * delp and dcon > 1 returns
\* SUN_NLS_CONTINUE and leaves delp = del.
C5_ContinueSavesNorm ==
  (ConvCalled /\ last.m >= 1 /\ ~Diverging /\ DconAboveOne) =>
     last.ret = SUN_NLS_CONTINUE /\ delp = last.del

C5_Witness ==
  /\ ConvCalled /\ last.m >= 1 /\ ~Diverging /\ DconAboveOne
  /\ last.ret = SUN_NLS_CONTINUE /\ last.del # last.delp

\* where cvNlsConvTest divides by delp, delp is not zero
DelpNonZero ==
  \A i \in Live : (nls[i].active /\ nls[i].curiter > 0) => RLt(ZERO, delp)

(***************************************************************************)
(* Properties of cvNlsResidual                                             *)
(***************************************************************************)
ResidualCalled == last.op = "cvNlsResidual" /\ last.i # NULL

\* the scenario of the specification: zn[0] = [1.0], zn[1] = [0.5], rl1 = 1.0,
\* gamma = 0.1, ycor = [0.0], right hand side [2.0]
ResidualScenario ==
  /\ ResidualCalled /\ last.retval = 0
  /\ last.pre.cv_zn = <<VecOf(ONE), VecOf(<<1, 2>>)>>
  /\ last.pre.cv_rl1 = ONE /\ last.pre.cv_gamma = <<1, 10>>
  /\ last.ycor = VecOf(ZERO) /\ last.fout = VecOf(<<2, 1>>)

\* C6: when the right hand side returns 0, cv_y = zn[0] + ycor, res =
\* rl1 * zn[1] + ycor - gamma * f component by component, the result is
\* CV_SUCCESS and cv_nfe is one higher; the scenario gives cv_y = [1.0] and
\* res = [0.3].
C6_ResidualOnSuccess ==
  /\ (ResidualCalled /\ last.retval = 0) =>
        /\ last.ret = CV_SUCCESS
        /\ cv_mem[last.i].cv_nfe = last.pre.cv_nfe + 1
        /\ \A k \in 1 .. VecLen :
              /\ cv_mem[last.i].cv_y[k] =
                    RAdd(last.pre.cv_zn[1][k], last.ycor[k])
              /\ res[k] =
                    RAdd(RAdd(RMul(last.pre.cv_rl1, last.pre.cv_zn[2][k]),
                              last.ycor[k]),
                         RNeg(RMul(last.pre.cv_gamma, last.fout[k])))
  /\ ResidualScenario =>
        cv_mem[last.i].cv_y = VecOf(ONE) /\ res = VecOf(<<3, 10>>)

C6_Witness == ResidualScenario /\ last.ret = CV_SUCCESS

\* C7: when the right hand side returns a nonzero status, a negative one
\* gives CV_RHSFUNC_FAIL and a positive one RHSFUNC_RECVR, cv_nfe is one
\* higher and the caller's residual vector is as it was before the call.
C7_ResidualOnFailure ==
  (ResidualCalled /\ last.retval # 0) =>
     /\ last.retval < 0 => last.ret = CV_RHSFUNC_FAIL
     /\ last.retval > 0 => last.ret = RHSFUNC_RECVR
     /\ CV_RHSFUNC_FAIL # RHSFUNC_RECVR
     /\ cv_mem[last.i].cv_nfe = last.pre.cv_nfe + 1
     /\ res = last.res

\* a failing call after a successful one: the stale residual differs from the
\* one this call would have computed
C7_Witness ==
  /\ ResidualCalled /\ last.retval > 0 /\ last.ret = RHSFUNC_RECVR
  /\ res = last.res /\ res # VecOf(ZERO)
  /\ res # ResidualRes(cv_mem[last.i], last.ycor)

(***************************************************************************)
(* Properties of cvNlsLSetup                                               *)
(***************************************************************************)
LSetupCalled == last.op = "cvNlsLSetup" /\ last.i # NULL

\* C8: whatever cv_lsetup returns, the call ends with cv_nsetups one higher,
\* *jcur = cv_jcur as the routine left it, gamrat = crate = 1, gammap = gamma
\* and nstlp = nst; with jbad the routine was given convfail = CV_FAIL_BAD_J;
\* the result is CV_LSETUP_FAIL, SUN_NLS_CONV_RECVR or CV_SUCCESS for a
\* negative, positive or zero return.
C8_LSetupAlwaysUpdates ==
  LSetupCalled =>
     LET mem == cv_mem[last.i] IN
     /\ mem.cv_nsetups = last.pre.cv_nsetups + 1
     /\ last.jcur = last.jcurOut /\ mem.cv_jcur = last.jcurOut
     /\ mem.cv_gamrat = ONE /\ mem.cv_crate = ONE
     /\ mem.cv_gammap = last.pre.cv_gamma /\ mem.cv_gamma = last.pre.cv_gamma
     /\ mem.cv_nstlp = last.pre.cv_nst /\ mem.cv_nst = last.pre.cv_nst
     /\ last.jbad => last.seen = CV_FAIL_BAD_J /\ mem.convfail = CV_FAIL_BAD_J
     /\ ~last.jbad => last.seen = last.pre.convfail
     /\ last.retval < 0 => last.ret = CV_LSETUP_FAIL
     /\ last.retval > 0 => last.ret = SUN_NLS_CONV_RECVR
     /\ last.retval = 0 => last.ret = CV_SUCCESS

\* a failing setup that still resets what a step had changed
C8_Witness ==
  /\ LSetupCalled /\ last.retval < 0 /\ last.jbad
  /\ last.pre.cv_gamrat # ONE /\ last.pre.cv_crate # ONE
  /\ last.pre.cv_gammap # last.pre.cv_gamma
  /\ last.pre.cv_nstlp # last.pre.cv_nst
  /\ last.pre.convfail # CV_FAIL_BAD_J
  /\ last.ret = CV_LSETUP_FAIL

(***************************************************************************)
(* Properties of CVodeSetNonlinearSolver                                   *)
(***************************************************************************)
\* the last call was a registration of a solver object on an integrator
RegCalled ==
  last.op = "CVodeSetNonlinearSolver" /\ last.i # NULL /\ last.s # NULL

\* C9: on an integrator, a candidate with one of the five required
\* operations missing, or of neither the root-finding nor the fixed-point
\* type, is answered CV_ILL_INPUT; a root-finding candidate gets
\* cvNlsResidual as system function and a fixed-point one cvNlsFPFunction;
\* after CV_SUCCESS the convergence test is cvNlsConvTest and the maximum
\* number of iterations is 3.
C9_RegistrationChecks ==
  RegCalled =>
     LET cand == last.preSolver[last.s]
         now  == solver[last.s]
         full == {"gettype", "initialize", "solve", "free", "setsysfn"}
                    \subseteq cand.ops
     IN /\ ~full => last.ret = CV_ILL_INPUT
        /\ cand.type \notin {"ROOTFIND", "FIXEDPOINT"} => last.ret = CV_ILL_INPUT
        /\ (full /\ cand.type = "ROOTFIND" /\ last.rsys = 0) =>
              now.sysfn = "cvNlsResidual"
        /\ (full /\ cand.type = "FIXEDPOINT" /\ last.rsys = 0) =>
              now.sysfn = "cvNlsFPFunction"
        /\ last.ret = CV_SUCCESS =>
              /\ full /\ cand.type \in {"ROOTFIND", "FIXEDPOINT"}
              /\ now.sysfn = (IF cand.type = "ROOTFIND" THEN "cvNlsResidual"
                                                       ELSE "cvNlsFPFunction")
              /\ now.ctestfn = "cvNlsConvTest"
              /\ now.maxiters = 3
              /\ cv_mem[last.i].NLS = last.s

\* a fixed-point solver accepted in place of an installed solver
C9_Witness ==
  /\ RegCalled /\ last.ret = CV_SUCCESS /\ last.preNLS # NULL
  /\ solver[last.s].type = "FIXEDPOINT"
  /\ solver[last.s].sysfn = "cvNlsFPFunction"

\* C10: when CVodeSetNonlinearSolver returns CV_MEM_NULL or CV_ILL_INPUT, the
\* integrator's solver is the one installed before the call, and it was not
\* freed by the call.
C10_RejectionLeavesSolver ==
  (last.op = "CVodeSetNonlinearSolver" /\ last.i # NULL
     /\ last.ret \in {CV_MEM_NULL, CV_ILL_INPUT}) =>
     /\ cv_mem[last.i].NLS = last.preNLS
     /\ last.preNLS # NULL =>
           solver[last.preNLS].state = last.preSolver[last.preNLS].state

=============================================================================
